---- MODULE Spec2Model ----
(***************************************************************************)
(* Model of connect/app.py: the QdrantManager wrapper around a remote      *)
(* vector-database service, and the demo sequence of main().               *)
(*                                                                         *)
(* Conventions.                                                            *)
(*  - Vector components are integers counting tenths (0.1 is 1), so a      *)
(*    dot-product score is an integer counting hundredths.                 *)
(*  - A Python dict used as payload or filter is a set of <<key, value>>   *)
(*    pairs; the empty dict is {}.                                         *)
(*  - A remote call either is answered by the service or fails (transport  *)
(*    fault, or the service rejects the request); which one is a           *)
(*    nondeterministic input of the action that issues the call.           *)
(***************************************************************************)
EXTENDS Integers, Sequences, FiniteSets, TLC

VARIABLES
    env,        \* the process environment: QDRANT_HOST and QDRANT_PORT
    server,     \* the remote service: its collections, in listing order
    pc,         \* position of main(), or "api" when the manager is driven directly
    exitCode,   \* -1 while the process runs, else the exit status
    calls,      \* remote calls issued, with their outcome
    ret,        \* the last manager operation: arguments, return value, message
    prev,       \* summary of the manager operation before ret
    steps       \* number of manager operations performed

vars == <<env, server, pc, exitCode, calls, ret, prev, steps>>

----------------------------------------------------------------------------
(* Bounds of the model *)

MaxOps == 3        \* manager operations per run when driven directly

----------------------------------------------------------------------------
(* Generic helpers *)

Unset == "<unset>"

Range(s) == {s[i] : i \in 1..Len(s)}

RECURSIVE SumSeq(_)
SumSeq(s) == IF s = <<>> THEN 0 ELSE Head(s) + SumSeq(Tail(s))

Dot(a, b) == SumSeq([i \in 1..Len(a) |-> a[i] * b[i]])

SqDist(a, b) == SumSeq([i \in 1..Len(a) |-> (a[i] - b[i]) * (a[i] - b[i])])

RECURSIVE IsqrtIter(_, _, _)
IsqrtIter(n, lo, hi) ==
    IF lo >= hi THEN lo
    ELSE LET mid == (lo + hi + 1) \div 2
         IN  IF mid * mid <= n THEN IsqrtIter(n, mid, hi)
                               ELSE IsqrtIter(n, lo, mid - 1)

Isqrt(n) == IsqrtIter(n, 0, n)

----------------------------------------------------------------------------
(* The remote service, as seen through the client library calls. The code   *)
(* only issues the calls; what the service does with them is its contract:  *)
(* collection names are unique, upsert replaces by id, search ranks by the  *)
(* collection's metric and truncates to the limit.                          *)

COSINE == "Cosine"
DOT    == "Dot"
EUCLID == "Euclid"

Names(srv) == [i \in 1..Len(srv) |-> srv[i].name]

Exists(srv, n) == \E i \in 1..Len(srv) : srv[i].name = n

IndexOf(srv, n) == CHOOSE i \in 1..Len(srv) : srv[i].name = n

Coll(srv, n) == srv[IndexOf(srv, n)]

\* Score of a stored vector against a query under the collection's metric:
\* dot product in hundredths, cosine in hundredths, Euclidean distance in
\* hundredths.
Score(metric, q, v) ==
    IF metric = DOT THEN Dot(q, v)
    ELSE IF metric = EUCLID THEN Isqrt(100 * SqDist(q, v))
    ELSE LET d == Dot(q, v)
             n == Dot(q, q) * Dot(v, v)
         IN  IF n = 0 THEN 0
             ELSE IF d >= 0 THEN Isqrt((10000 * d * d) \div n)
                  ELSE 0 - Isqrt((10000 * d * d) \div n)

\* a scores strictly better than b: larger similarity, or smaller distance.
Better(metric, a, b) == IF metric = EUCLID THEN a < b ELSE a > b

\* Insert-or-replace of one point, keyed by id.
UpsertOne(pts, p) ==
    IF \E i \in 1..Len(pts) : pts[i].id = p.id
    THEN [i \in 1..Len(pts) |-> IF pts[i].id = p.id THEN p ELSE pts[i]]
    ELSE Append(pts, p)

RECURSIVE UpsertAll(_, _)
UpsertAll(pts, batch) ==
    IF batch = <<>> THEN pts
    ELSE UpsertAll(UpsertOne(pts, Head(batch)), Tail(batch))

\* Insertion of one hit into a ranking that is already ordered best first;
\* equal scores keep their arrival order.
RECURSIVE InsertHit(_, _, _)
InsertHit(metric, ranked, h) ==
    IF ranked = <<>> THEN <<h>>
    ELSE IF Better(metric, h.score, Head(ranked).score)
         THEN <<h>> \o ranked
         ELSE <<Head(ranked)>> \o InsertHit(metric, Tail(ranked), h)

\* A filter object: every "must" condition is in the payload, no "must_not"
\* condition is.
Matches(flt, payload) ==
    /\ flt.must \subseteq payload
    /\ flt.must_not \cap payload = {}

RECURSIVE Rank(_, _, _, _)
Rank(metric, q, pts, flt) ==
    IF pts = <<>> THEN <<>>
    ELSE LET p == pts[Len(pts)]
             rest == Rank(metric, q, SubSeq(pts, 1, Len(pts) - 1), flt)
         IN  IF Matches(flt, p.payload)
             THEN InsertHit(metric, rest,
                      [id |-> p.id, version |-> 0,
                       score |-> Score(metric, q, p.vector),
                       payload |-> p.payload])
             ELSE rest

Take(s, k) == SubSeq(s, 1, IF k < Len(s) THEN k ELSE Len(s))

\* create_collection request: rejected when the name is taken.
SrvCreateOk(srv, n, size) == ~Exists(srv, n) /\ size >= 1

SrvCreate(srv, n, size, metric) ==
    Append(srv, [name |-> n, size |-> size, distance |-> metric, points |-> <<>>])

\* upsert request: rejected when the collection is missing or a vector has
\* the wrong dimensionality; the batch is applied as a whole.
SrvUpsertOk(srv, n, batch) ==
    /\ Exists(srv, n)
    /\ \A i \in 1..Len(batch) : Len(batch[i].vector) = Coll(srv, n).size

SrvUpsert(srv, n, batch) ==
    [i \in 1..Len(srv) |->
        IF srv[i].name = n
        THEN [srv[i] EXCEPT !.points = UpsertAll(srv[i].points, batch)]
        ELSE srv[i]]

\* search request: rejected when the collection is missing, the query has the
\* wrong dimensionality or the limit is below 1.
SrvSearchOk(srv, n, q, limit) ==
    /\ Exists(srv, n)
    /\ Len(q) = Coll(srv, n).size
    /\ limit >= 1

SrvSearch(srv, n, q, limit, flt) ==
    LET c == Coll(srv, n)
    IN  Take(Rank(c.distance, q, c.points, flt), limit)

\* delete_collection request: removes the collection when it is there.
SrvDelete(srv, n) == SelectSeq(srv, LAMBDA c : c.name # n)

----------------------------------------------------------------------------
(* QdrantManager: each operation is an operator from the service state, the *)
(* arguments and the outcome of its remote calls to the new service state,  *)
(* the remote calls issued and what the caller gets back.                   *)

NoFilter == [must |-> {}, must_not |-> {}]

NoInfo == [points_count |-> 0, vector_size |-> 0, distance |-> ""]

\* What a caller observes of an operation. kind is "none" (no return value),
\* "seq" (items), "map" (info) or "raise" (an exception left the operation).
NoRet ==
    [op |-> "", name |-> "", size |-> 0, distance |-> "", points |-> <<>>,
     query |-> <<>>, has |-> {}, limit |-> 0, filter |-> {},
     kind |-> "none", items |-> <<>>, info |-> NoInfo, msg |-> ""]

Call(c, n, ok) == [call |-> c, name |-> n, ok |-> ok]

distance_map ==
    [d \in {"Cosine", "Dot", "Euclidean"} |->
        IF d = "Cosine" THEN COSINE ELSE IF d = "Dot" THEN DOT ELSE EUCLID]

\* The lookup falling back to the last entry of the table.
DistanceGet_last(d) == IF d \in DOMAIN distance_map THEN distance_map[d] ELSE EUCLID

\* distance_map.get(distance, Distance.COSINE)
DistanceGet(d) == IF d \in DOMAIN distance_map THEN distance_map[d] ELSE COSINE

\* str(Distance.X)
StrDistance(m) ==
    IF m = COSINE THEN "Distance.COSINE"
    ELSE IF m = DOT THEN "Distance.DOT" ELSE "Distance.EUCLID"

\* list_collections without the early return: the empty listing is indexed.
list_collections_noguard(srv, fault) ==
    LET names == Names(srv)
        n     == Len(names)
        base  == [NoRet EXCEPT !.op = "list_collections"]
    IN  IF fault = 1 \/ n = 0
        THEN [srv |-> srv, calls |-> <<Call("get_collections", "", fault # 1)>>,
              ret |-> [base EXCEPT !.kind = "raise"]]
        ELSE IF fault \in 2..(n + 1)
        THEN [srv |-> srv,
              calls |-> <<Call("get_collections", "", TRUE)>> \o
                        [i \in 1..(fault - 1) |->
                            Call("get_collection", names[i], i < fault - 1)],
              ret |-> [base EXCEPT !.kind = "raise"]]
        ELSE [srv |-> srv,
              calls |-> <<Call("get_collections", "", TRUE)>> \o
                        [i \in 1..n |-> Call("get_collection", names[i], TRUE)],
              ret |-> [base EXCEPT !.kind = "seq", !.items = names,
                                   !.msg = "points"]]

\* fault is 0 when every remote call is answered, k when the k-th one fails.
list_collections(srv, fault) ==
    LET names == Names(srv)
        n     == Len(names)
        base  == [NoRet EXCEPT !.op = "list_collections"]
    IN  IF fault = 1
        THEN [srv |-> srv, calls |-> <<Call("get_collections", "", FALSE)>>,
              ret |-> [base EXCEPT !.kind = "raise"]]
        ELSE IF n = 0
        THEN [srv |-> srv, calls |-> <<Call("get_collections", "", TRUE)>>,
              ret |-> [base EXCEPT !.kind = "seq", !.items = <<>>,
                                   !.msg = "No collections found"]]
        ELSE IF fault \in 2..(n + 1)
        THEN [srv |-> srv,
              calls |-> <<Call("get_collections", "", TRUE)>> \o
                        [i \in 1..(fault - 1) |->
                            Call("get_collection", names[i], i < fault - 1)],
              ret |-> [base EXCEPT !.kind = "raise"]]
        ELSE [srv |-> srv,
              calls |-> <<Call("get_collections", "", TRUE)>> \o
                        [i \in 1..n |-> Call("get_collection", names[i], TRUE)],
              ret |-> [base EXCEPT !.kind = "seq", !.items = names,
                                   !.msg = "points"]]

create_collection_distance == "Cosine"

create_collection(srv, name, vector_size, distance, fault) ==
    LET d    == IF distance = Unset THEN create_collection_distance ELSE distance
        ok   == ~fault /\ SrvCreateOk(srv, name, vector_size)
        base == [NoRet EXCEPT !.op = "create_collection", !.name = name,
                              !.size = vector_size, !.distance = distance]
    IN  [srv |-> IF ok THEN SrvCreate(srv, name, vector_size, DistanceGet(d))
                       ELSE srv,
         calls |-> <<Call("create_collection", name, ok)>>,
         ret |-> [base EXCEPT !.msg = IF ok THEN "Created collection"
                                            ELSE "Failed to create collection"]]

\* A point argument is a dict: has is its key set.
PointStruct(point) ==
    [id |-> point.id, vector |-> point.vector,
     payload |-> IF "payload" \in point.has THEN point.payload ELSE {}]

insert_points(srv, collection_name, points, fault) ==
    LET base == [NoRet EXCEPT !.op = "insert_points", !.name = collection_name,
                              !.points = points]
        keysOk == \A i \in 1..Len(points) : {"id", "vector"} \subseteq points[i].has
        qdrant_points == [i \in 1..Len(points) |-> PointStruct(points[i])]
        ok == ~fault /\ SrvUpsertOk(srv, collection_name, qdrant_points)
    IN  IF ~keysOk
        THEN [srv |-> srv, calls |-> <<>>, ret |-> [base EXCEPT !.kind = "raise"]]
        ELSE [srv |-> IF ok THEN SrvUpsert(srv, collection_name, qdrant_points)
                            ELSE srv,
              calls |-> <<Call("upsert", collection_name, ok)>>,
              ret |-> [base EXCEPT !.msg = IF ok THEN "Inserted points"
                                                 ELSE "Failed to insert points"]]

search_limit == 5

FilterFields == {"must", "must_not"}

\* Filter(**filter_condition): fails on a key that is no field of Filter.
FilterOk(fc) == \A kv \in fc : kv[1] \in FilterFields

Filter(fc) ==
    [must     |-> UNION {kv[2] : kv \in {x \in fc : x[1] = "must"}},
     must_not |-> UNION {kv[2] : kv \in {x \in fc : x[1] = "must_not"}}]

\* The body of search, with the two places a slip would change: whether the
\* filter object is built inside the exception handler, and the index of the
\* first server hit that is reshaped.
SearchBody(srv, collection_name, query_vector, kw, fault, guarded, first) ==
    LET limit  == IF "limit" \in kw.has THEN kw.limit ELSE search_limit
        fc     == IF "filter_condition" \in kw.has THEN kw.filter_condition ELSE {}
        base   == [NoRet EXCEPT !.op = "search", !.name = collection_name,
                                !.query = query_vector, !.has = kw.has,
                                !.limit = limit, !.filter = fc, !.kind = "seq"]
        failed == [base EXCEPT !.items = <<>>, !.msg = "Search failed"]
    IN  IF fc # {} /\ ~FilterOk(fc)
        THEN [srv |-> srv, calls |-> <<>>,
              ret |-> IF guarded THEN failed ELSE [failed EXCEPT !.kind = "raise"]]
        ELSE LET search_filter == IF fc # {} THEN Filter(fc) ELSE NoFilter
                 ok == ~fault /\ SrvSearchOk(srv, collection_name, query_vector, limit)
                 results == SrvSearch(srv, collection_name, query_vector, limit,
                                      search_filter)
             IN  [srv |-> srv,
                  calls |-> <<Call("search", collection_name, ok)>>,
                  ret |-> IF ok
                          THEN [base EXCEPT !.items =
                                  [i \in 1..(Len(results) + 1 - first) |->
                                      [id |-> results[i + first - 1].id,
                                       score |-> results[i + first - 1].score,
                                       payload |-> results[i + first - 1].payload]]]
                          ELSE failed]

\* search with the filter object built before the try block.
search_unguarded(srv, collection_name, query_vector, kw, fault) ==
    SearchBody(srv, collection_name, query_vector, kw, fault, FALSE, 1)

\* search whose reshaping loop skips the first hit.
search_skipfirst(srv, collection_name, query_vector, kw, fault) ==
    SearchBody(srv, collection_name, query_vector, kw, fault, TRUE, 2)

\* kw holds the keyword arguments given: has is the set of their names.
search(srv, collection_name, query_vector, kw, fault) ==
    LET limit  == IF "limit" \in kw.has THEN kw.limit ELSE search_limit
        fc     == IF "filter_condition" \in kw.has THEN kw.filter_condition ELSE {}
        base   == [NoRet EXCEPT !.op = "search", !.name = collection_name,
                                !.query = query_vector, !.has = kw.has,
                                !.limit = limit, !.filter = fc, !.kind = "seq"]
        failed == [base EXCEPT !.items = <<>>, !.msg = "Search failed"]
    IN  IF fc # {} /\ ~FilterOk(fc)
        THEN [srv |-> srv, calls |-> <<>>, ret |-> failed]
        ELSE LET search_filter == IF fc # {} THEN Filter(fc) ELSE NoFilter
                 ok == ~fault /\ SrvSearchOk(srv, collection_name, query_vector, limit)
                 results == SrvSearch(srv, collection_name, query_vector, limit,
                                      search_filter)
             IN  [srv |-> srv,
                  calls |-> <<Call("search", collection_name, ok)>>,
                  ret |-> IF ok
                          THEN [base EXCEPT !.items =
                                  [i \in 1..Len(results) |->
                                      [id |-> results[i].id,
                                       score |-> results[i].score,
                                       payload |-> results[i].payload]]]
                          ELSE failed]

\* get_info reporting the point count as the dimensionality.
get_info_count(srv, collection_name, fault) ==
    LET ok   == ~fault /\ Exists(srv, collection_name)
        base == [NoRet EXCEPT !.op = "get_info", !.name = collection_name]
    IN  [srv |-> srv,
         calls |-> <<Call("get_collection", collection_name, ok)>>,
         ret |-> IF ok
                 THEN LET info == Coll(srv, collection_name)
                      IN  [base EXCEPT !.kind = "map", !.info =
                             [points_count |-> Len(info.points),
                              vector_size |-> Len(info.points),
                              distance |-> StrDistance(info.distance)]]
                 ELSE [base EXCEPT !.msg = "Failed to get info"]]

get_info(srv, collection_name, fault) ==
    LET ok   == ~fault /\ Exists(srv, collection_name)
        base == [NoRet EXCEPT !.op = "get_info", !.name = collection_name]
    IN  [srv |-> srv,
         calls |-> <<Call("get_collection", collection_name, ok)>>,
         ret |-> IF ok
                 THEN LET info == Coll(srv, collection_name)
                      IN  [base EXCEPT !.kind = "map", !.info =
                             [points_count |-> Len(info.points),
                              vector_size |-> info.size,
                              distance |-> StrDistance(info.distance)]]
                 ELSE [base EXCEPT !.msg = "Failed to get info"]]

\* delete_collection without its exception handler.
delete_collection_nocatch(srv, collection_name, fault) ==
    LET ok   == ~fault
        base == [NoRet EXCEPT !.op = "delete_collection", !.name = collection_name]
    IN  [srv |-> IF ok THEN SrvDelete(srv, collection_name) ELSE srv,
         calls |-> <<Call("delete_collection", collection_name, ok)>>,
         ret |-> IF ok THEN [base EXCEPT !.msg = "Deleted collection"]
                       ELSE [base EXCEPT !.kind = "raise"]]

delete_collection(srv, collection_name, fault) ==
    LET ok   == ~fault
        base == [NoRet EXCEPT !.op = "delete_collection", !.name = collection_name]
    IN  [srv |-> IF ok THEN SrvDelete(srv, collection_name) ELSE srv,
         calls |-> <<Call("delete_collection", collection_name, ok)>>,
         ret |-> [base EXCEPT !.msg = IF ok THEN "Deleted collection"
                                            ELSE "Failed to delete collection"]]

\* QdrantManager.__init__ on environment e; fault says whether the probe fails.
\* The result is the exit status (-1: construction succeeded) and the remote
\* calls issued.
NumericStrings == {"6333", "6334"}

QdrantManager(e, fault) ==
    IF e.port # Unset /\ e.port \notin NumericStrings
    THEN [exit |-> 1, calls |-> <<>>, msg |-> "ValueError"]
    ELSE IF e.host = Unset \/ e.host = ""
    THEN [exit |-> 1, calls |-> <<>>, msg |-> "Error: Set QDRANT_HOST environment variable"]
    ELSE IF fault
    THEN [exit |-> 1, calls |-> <<Call("get_collections", "", FALSE)>>,
          msg |-> "Connection failed"]
    ELSE [exit |-> -1, calls |-> <<Call("get_collections", "", TRUE)>>, msg |-> ""]

----------------------------------------------------------------------------
(* main() *)

collection_name == "python_demo"

Payload(name, category) == {<<"name", name>>, <<"category", category>>}

sample_data ==
    << [has |-> {"id", "vector", "payload"}, id |-> 1, vector |-> <<1, 2, 3, 4>>,
        payload |-> Payload("item_1", "A")],
       [has |-> {"id", "vector", "payload"}, id |-> 2, vector |-> <<5, 6, 7, 8>>,
        payload |-> Payload("item_2", "B")],
       [has |-> {"id", "vector", "payload"}, id |-> 3, vector |-> <<9, 1, 5, 2>>,
        payload |-> Payload("item_3", "A")] >>

demo_query == <<1, 2, 3, 4>>

\* The demo collection created with the default metric name.
demo_distance_cosine == "Cosine"

demo_distance == "Dot"

test_query == <<2, 1, 9, 7>>

Kw(has, limit, fc) == [has |-> has, limit |-> limit, filter_condition |-> fc]

\* What is kept of the operation before the last one.
Summary(r) == [op |-> r.op, name |-> r.name, size |-> r.size, msg |-> r.msg]

\* The effect of one manager operation on the state; log is the record of
\* remote calls it extends.
Apply(r, log) ==
    /\ server' = r.srv
    /\ calls' = log \o r.calls
    /\ prev' = Summary(ret)
    /\ ret' = r.ret
    /\ steps' = steps + 1
    /\ UNCHANGED env

\* An exception that leaves main() ends the process with status 1.
Continue(r, next) ==
    IF r.ret.kind = "raise"
    THEN pc' = "crashed" /\ exitCode' = 1
    ELSE pc' = next /\ UNCHANGED exitCode

MainInit ==
    /\ pc = "start"
    /\ \E fault \in BOOLEAN :
          LET m == QdrantManager(env, fault)
          IN  /\ calls' = calls \o m.calls
              /\ exitCode' = m.exit
              /\ pc' = IF m.exit = -1 THEN "list" ELSE "exit"
    /\ UNCHANGED <<env, server, ret, prev, steps>>

MainList ==
    /\ pc = "list"
    /\ \E fault \in 0..(Len(server) + 1) :
          LET r == list_collections(server, fault)
          IN  /\ Apply(r, calls)
              /\ Continue(r, IF "test_collection" \in Range(r.ret.items)
                             THEN "search_test" ELSE "create")

MainSearchTest ==
    /\ pc = "search_test"
    /\ \E fault \in BOOLEAN :
          LET r == search(server, "test_collection", test_query,
                          Kw({"limit"}, 3, {}), fault)
          IN  Apply(r, calls) /\ Continue(r, "create")

\* main() returning early when the demo collection could not be created.
MainCreateOrStop ==
    /\ pc = "create"
    /\ \E fault \in BOOLEAN :
          LET r == create_collection(server, collection_name, 4, demo_distance, fault)
          IN  Apply(r, calls) /\
              Continue(r, IF r.ret.msg = "Created collection" THEN "insert" ELSE "end")

MainCreate ==
    /\ pc = "create"
    /\ \E fault \in BOOLEAN :
          LET r == create_collection(server, collection_name, 4, demo_distance, fault)
          IN  Apply(r, calls) /\ Continue(r, "insert")

MainInsert ==
    /\ pc = "insert"
    /\ \E fault \in BOOLEAN :
          LET r == insert_points(server, collection_name, sample_data, fault)
          IN  Apply(r, calls) /\ Continue(r, "search")

MainSearch ==
    /\ pc = "search"
    /\ \E fault \in BOOLEAN :
          LET r == search(server, collection_name, demo_query,
                          Kw({"limit"}, 2, {}), fault)
          IN  Apply(r, calls) /\ Continue(r, "delete")

MainDelete ==
    /\ pc = "delete"
    /\ \E fault \in BOOLEAN :
          LET r == delete_collection(server, collection_name, fault)
          IN  Apply(r, calls) /\ Continue(r, "end")

MainReturn ==
    /\ pc = "end"
    /\ pc' = "done"
    /\ exitCode' = 0
    /\ UNCHANGED <<env, server, calls, ret, prev, steps>>

\* The environments and the service states main() is started in.
Envs == [host : {Unset, "", "13.250.25.109"}, port : {Unset, "6333", "abc"}]

Stored(id, vector, payload) == [id |-> id, vector |-> vector, payload |-> payload]

Collection(n, size, metric, points) ==
    [name |-> n, size |-> size, distance |-> metric, points |-> points]

DemoBefore ==
    { <<>>,
      <<Collection("python_demo", 4, COSINE, <<>>)>>,
      <<Collection("python_demo", 4, EUCLID,
                   <<Stored(7, <<1, 2, 3, 4>>, Payload("old", "A"))>>)>>,
      <<Collection("python_demo", 3, DOT,
                   <<Stored(7, <<1, 1, 1>>, {})>>)>> }

TestBefore ==
    { <<>>,
      <<Collection("test_collection", 4, COSINE,
                   <<Stored(1, <<2, 1, 9, 7>>, {<<"city", "Dhaka">>}),
                     Stored(2, <<9, 1, 1, 1>>, {})>>)>>,
      <<Collection("docs", 2, DOT, <<>>)>> }

Servers == {a \o b : a \in TestBefore, b \in DemoBefore}

Init ==
    /\ env \in Envs
    /\ server \in Servers
    /\ pc = "start"
    /\ exitCode = -1
    /\ calls = <<>>
    /\ ret = NoRet
    /\ prev = Summary(NoRet)
    /\ steps = 0

Next ==
    \/ MainInit
    \/ MainList
    \/ MainSearchTest
    \/ MainCreate
    \/ MainInsert
    \/ MainSearch
    \/ MainDelete
    \/ MainReturn

Spec == Init /\ [][Next]_vars

----------------------------------------------------------------------------
(* The manager driven directly: any sequence of at most MaxOps operations,   *)
(* with arguments from the sets below, on a manager whose construction      *)
(* succeeded.                                                                *)

ApiNames == {"python_demo", "docs"}

ApiSizes == {1, 2}

ApiDistances == {"Cosine", "Dot", "Euclidean", "cosine", "Manhattan", Unset}

ApiPoints ==
    { [has |-> {"id", "vector", "payload"}, id |-> 1, vector |-> <<1, 0>>,
       payload |-> {<<"category", "A">>}],
      [has |-> {"id", "vector"}, id |-> 2, vector |-> <<1, 2>>, payload |-> {}],
      [has |-> {"id", "vector", "payload"}, id |-> 1, vector |-> <<0, 2>>,
       payload |-> {<<"category", "B">>}],
      [has |-> {"id", "vector"}, id |-> 3, vector |-> <<2>>, payload |-> {}],
      [has |-> {"vector", "payload"}, id |-> 0, vector |-> <<1, 0>>,
       payload |-> {<<"category", "A">>}] }

ApiBatches ==
    {<<>>} \cup {<<p>> : p \in ApiPoints} \cup
    {<<p, q>> : p \in {x \in ApiPoints : x.id = 1},
                q \in {x \in ApiPoints : x.id \in {1, 2}}}

ApiQueries == {<<1, 0>>, <<1, 2>>, <<2>>}

ApiKws ==
    { Kw({}, 0, {}),
      Kw({"limit"}, 0, {}),
      Kw({"limit"}, 1, {}),
      Kw({"limit", "filter_condition"}, 2, {<<"must", {<<"category", "A">>}>>}),
      Kw({"filter_condition"}, 0, {<<"must_not", {<<"category", "A">>}>>}),
      Kw({"limit", "filter_condition"}, 1, {<<"category", {<<"match", "A">>}>>}) }

Ready == pc = "api" /\ steps < MaxOps

\* The caller of the manager goes on after an exception; calls holds the
\* remote calls of the last operation only.
Api(r) == Apply(r, <<>>) /\ UNCHANGED <<pc, exitCode>>

ApiList ==
    /\ Ready
    /\ \E fault \in 0..(Len(server) + 1) : Api(list_collections(server, fault))

ApiCreate ==
    /\ Ready
    /\ \E n \in ApiNames, size \in ApiSizes, d \in ApiDistances, fault \in BOOLEAN :
          Api(create_collection(server, n, size, d, fault))

ApiInsert ==
    /\ Ready
    /\ \E n \in ApiNames, b \in ApiBatches, fault \in BOOLEAN :
          Api(insert_points(server, n, b, fault))

ApiSearch ==
    /\ Ready
    /\ \E n \in ApiNames, q \in ApiQueries, kw \in ApiKws, fault \in BOOLEAN :
          Api(search(server, n, q, kw, fault))

ApiGetInfo ==
    /\ Ready
    /\ \E n \in ApiNames, fault \in BOOLEAN : Api(get_info(server, n, fault))

ApiDelete ==
    /\ Ready
    /\ \E n \in ApiNames, fault \in BOOLEAN : Api(delete_collection(server, n, fault))

ApiInit ==
    /\ env = [host |-> "13.250.25.109", port |-> Unset]
    /\ server \in {<<>>, <<Collection("docs", 2, DOT, <<>>)>>}
    /\ pc = "api"
    /\ exitCode = -1
    /\ calls = <<>>
    /\ ret = NoRet
    /\ prev = Summary(NoRet)
    /\ steps = 0

ApiNext ==
    \/ ApiList
    \/ ApiCreate
    \/ ApiInsert
    \/ ApiSearch
    \/ ApiGetInfo
    \/ ApiDelete

ApiSpec == ApiInit /\ [][ApiNext]_vars

----------------------------------------------------------------------------
(* Properties *)

Constructed == pc \notin {"start", "exit"}

AllOk == \A i \in 1..Len(calls) : calls[i].ok

Descending(items) ==
    \A i \in 1..Len(items) : \A j \in i..Len(items) : items[i].score >= items[j].score

LastCalls(k) == SubSeq(calls, Len(calls) - k + 1, Len(calls))

\* C1 (as claimed): once construction has succeeded, no failure of a later
\* remote call changes the process outcome: no exception leaves an operation,
\* a failed operation hands back its safe default, and main() ends with
\* status 0.
C1_FailuresNeverChangeOutcome ==
    Constructed =>
        /\ exitCode \in {-1, 0}
        /\ pc # "crashed"
        /\ ret.kind # "raise"
        /\ (ret.kind = "seq" /\ ~calls[Len(calls)].ok) => ret.items = <<>>

\* C2 (as claimed): status 1 is reached without any collection operation,
\* without any connection attempt when QDRANT_HOST is unset, and only when
\* QDRANT_HOST is unset or empty or the connectivity probe failed.
C2_FailFastAndOnlyThen ==
    /\ (pc = "exit") =>
          /\ exitCode = 1
          /\ \A i \in 1..Len(calls) : calls[i].call = "get_collections"
          /\ env.host = Unset => calls = <<>>
    /\ (pc = "start" /\ env.host \in {Unset, ""}) => calls = <<>>
    /\ (exitCode = 1) =>
          \/ env.host \in {Unset, ""}
          \/ calls = <<Call("get_collections", "", FALSE)>>

DemoSearched ==
    /\ pc = "delete"
    /\ AllOk
    /\ ret.op = "search"
    /\ ret.name = collection_name

\* C3 (as claimed): when python_demo did not exist and every call succeeded,
\* the demo search returns exactly 2 results in descending dot-product order
\* and the first one is id 1.
C3_DemoSearchFirstIsId1 ==
    DemoSearched =>
        /\ Len(ret.items) = 2
        /\ Descending(ret.items)
        /\ ret.items[1].id = 1

\* C3 (amended): when python_demo did not exist and every call succeeded, the
\* demo search returns exactly 2 results in descending dot-product order:
\* id 2 (score 0.70) then id 3 (score 0.34); id 1 (score 0.30) is not returned.
C3_DemoSearchResult ==
    DemoSearched =>
        /\ Len(ret.items) = 2
        /\ Descending(ret.items)
        /\ ret.items[1].id = 2 /\ ret.items[1].score = 70
        /\ ret.items[2].id = 3 /\ ret.items[2].score = 34
        /\ ret.items[1].payload = Payload("item_2", "B")

C3_Witness ==
    /\ DemoSearched
    /\ Len(ret.items) = 2
    /\ Len(Coll(server, collection_name).points) = 3
    /\ Coll(server, collection_name).distance = DOT

CreateThenInfo ==
    /\ prev.op = "create_collection"
    /\ ret.op = "get_info"
    /\ prev.name = ret.name
    /\ ret.kind = "map"

\* C4 (as claimed): for every prior service state, create_collection(n, d)
\* followed by get_info(n) returns a mapping whose vector_size is d.
C4_InfoSizeIsCreateSize ==
    CreateThenInfo => ret.info.vector_size = prev.size

\* C4 (amended): when no collection named n exists before, so that the
\* service accepts the creation, create_collection(n, d) followed by an
\* answered get_info(n) returns a mapping whose vector_size is d.
C4_InfoSizeAfterAcceptedCreate ==
    (CreateThenInfo /\ prev.msg = "Created collection") =>
        ret.info.vector_size = prev.size

C4_Witness ==
    /\ CreateThenInfo
    /\ prev.msg = "Created collection"
    /\ prev.size = 2
    /\ ret.info.vector_size = 2

\* C5: search never lets a fault reach its caller: it returns a sequence,
\* empty whenever the filter cannot be built or the remote call fails, and
\* otherwise one {id, score, payload} entry per server hit, in the server's
\* order, at most limit of them.
C5_SearchNeverRaises ==
    (ret.op = "search") =>
        /\ ret.kind = "seq"
        /\ exitCode = -1
        /\ (calls = <<>> \/ ~AllOk) <=> ret.msg = "Search failed"
        /\ ret.msg = "Search failed" => ret.items = <<>>
        /\ ret.msg # "Search failed" =>
              LET hits == SrvSearch(server, ret.name, ret.query, ret.limit,
                                    IF ret.filter = {} THEN NoFilter
                                    ELSE Filter(ret.filter))
              IN  /\ Len(ret.items) = Len(hits)
                  /\ Len(ret.items) <= ret.limit
                  /\ \A i \in 1..Len(hits) :
                        /\ ret.items[i].id = hits[i].id
                        /\ ret.items[i].score = hits[i].score
                        /\ ret.items[i].payload = hits[i].payload
                        /\ DOMAIN ret.items[i] = {"id", "score", "payload"}

C5_Witness ==
    /\ ret.op = "search"
    /\ ~Exists(server, ret.name)
    /\ ret.kind = "seq"
    /\ ret.items = <<>>
    /\ ret.msg = "Search failed"

SinglePointSearched ==
    /\ ret.op = "search"
    /\ ret.msg # "Search failed"
    /\ Exists(server, ret.name)
    /\ Len(Coll(server, ret.name).points) = 1
    /\ ret.query = Coll(server, ret.name).points[1].vector
    /\ \/ ret.filter = {}
       \/ Matches(Filter(ret.filter), Coll(server, ret.name).points[1].payload)

\* C6: in a collection that holds exactly one point after insert_points, an
\* answered search whose query is the inserted vector (and whose filter, if
\* any, admits the point) returns that point's id as the first result; a point
\* given without payload is stored with the empty payload.
C6_SinglePointRoundTrip ==
    /\ SinglePointSearched =>
          /\ Len(ret.items) >= 1
          /\ ret.items[1].id = Coll(server, ret.name).points[1].id
    /\ (ret.op = "insert_points" /\ ret.msg = "Inserted points") =>
          \A i \in 1..Len(ret.points) :
             \E j \in 1..Len(Coll(server, ret.name).points) :
                LET st == Coll(server, ret.name).points[j]
                IN  /\ st.id = ret.points[i].id
                    /\ "payload" \notin ret.points[i].has => st.payload = {}

C6_Witness ==
    /\ SinglePointSearched
    /\ prev.op = "insert_points"
    /\ prev.msg = "Inserted points"
    /\ prev.name = ret.name
    /\ ret.items[1].id = 2
    /\ ret.items[1].payload = {}

\* C7: list_collections on a service that reports zero collections returns
\* the empty sequence and raises nothing; when it returns on a service with
\* collections, it returns their names, one per collection, in listing order,
\* after one point-count lookup per collection.
C7_ListCollections ==
    (ret.op = "list_collections") =>
        /\ (server = <<>> /\ calls[1].ok) =>
              /\ ret.kind = "seq"
              /\ ret.items = <<>>
              /\ Len(calls) = 1
        /\ (server # <<>> /\ ret.kind = "seq") =>
              /\ ret.items = Names(server)
              /\ Len(calls) = Len(server) + 1
              /\ \A i \in 1..Len(server) :
                    calls[i + 1] = Call("get_collection", server[i].name, TRUE)
        /\ ret.kind = "raise" => ~AllOk

C7_Witness ==
    /\ ret.op = "list_collections"
    /\ server = <<>>
    /\ ret.kind = "seq"
    /\ ret.items = <<>>
    /\ prev.op = "delete_collection"

DeletedTwice ==
    /\ prev.op = "delete_collection"
    /\ ret.op = "delete_collection"
    /\ prev.name = ret.name

Others(srv, n) == SelectSeq(srv, LAMBDA c : c.name # n)

DeleteStep == ret'.op = "delete_collection" /\ steps' = steps + 1

\* C8: delete_collection(n) called twice in a row never ends the process and
\* never raises; a failure of the second call is swallowed; once a call was
\* accepted the collection n does not exist; and each call leaves every other
\* collection unchanged.
C8_DeleteTwiceIsSafe ==
    /\ [](DeletedTwice =>
            /\ ret.kind = "none"
            /\ exitCode = -1
            /\ pc = "api"
            /\ (prev.msg = "Deleted collection" \/ ret.msg = "Deleted collection")
                  => ~Exists(server, ret.name))
    /\ [][DeleteStep =>
            /\ ret'.kind = "none"
            /\ Others(server', ret'.name) = Others(server, ret'.name)]_vars

C8_Witness ==
    /\ DeletedTwice
    /\ prev.msg = "Deleted collection"
    /\ ret.msg = "Failed to delete collection"
    /\ ret.kind = "none"
    /\ ~Exists(server, ret.name)
    /\ Len(server) = 1

\* C9: create_collection sends "Cosine" as cosine, "Dot" as dot product,
\* "Euclidean" as Euclidean, and any other string, or no argument, as cosine;
\* an unknown string raises nothing and stops no request.
C9_DistanceTable ==
    (ret.op = "create_collection") =>
        /\ ret.kind = "none"
        /\ Len(calls) = 1
        /\ calls[1].ok =>
              /\ Exists(server, ret.name)
              /\ ret.msg = "Created collection"
              /\ Coll(server, ret.name).distance =
                    (IF ret.distance = "Dot" THEN DOT
                     ELSE IF ret.distance = "Euclidean" THEN EUCLID
                     ELSE COSINE)

C9_Witness ==
    /\ ret.op = "create_collection"
    /\ ret.distance = "Manhattan"
    /\ ret.msg = "Created collection"
    /\ Coll(server, ret.name).distance = COSINE

DemoCalls ==
    << "create_collection", "upsert", "search", "delete_collection" >>

\* C10: a run of main() that gets past list_collections issues create, insert,
\* search and delete on python_demo in that order whatever their outcomes,
\* and once the delete has succeeded no collection python_demo exists.
C10_DemoSequenceAlwaysDeletes ==
    /\ pc = "crashed" => ret.op = "list_collections"
    /\ \A k \in 1..4 :
          (pc = <<"insert", "search", "delete", "end">>[k]) =>
              /\ Len(calls) >= k
              /\ \A i \in 1..k :
                    /\ LastCalls(k)[i].call = DemoCalls[i]
                    /\ LastCalls(k)[i].name = collection_name
    /\ (pc \in {"end", "done"}) =>
          /\ Len(calls) >= 4
          /\ \A i \in 1..4 : LastCalls(4)[i].call = DemoCalls[i]
          /\ LastCalls(4)[4].ok => ~Exists(server, collection_name)

C10_Witness ==
    /\ pc = "done"
    /\ exitCode = 0
    /\ ~LastCalls(4)[1].ok
    /\ LastCalls(4)[2].ok
    /\ LastCalls(4)[4].ok
    /\ ~Exists(server, collection_name)

====
